---- MODULE Spec2Model ----
(***************************************************************************)
(* Model of the evaluation pipeline of the deep-research repository:       *)
(*   - URLScraper.fetch_one / fetch_many          (evaluation/eval_tools)  *)
(*   - evaluate_impact_node                (impact_evidence_faithfulness)  *)
(*   - evaluate_policy_attribution_node  (policy_attribution_consistency)  *)
(*   - scrape_urls_node, _aggregate_*, combine_node, workflow (eval_graph) *)
(*   - deduplicate_search_results, process_search_results,                 *)
(*     format_search_output, deep_search_naver_internal                    *)
(*                                                  (deep_research/utils)  *)
(*   - the Budgeted Tool Loop and the Delegation Supervisor, whose limits  *)
(*     deep_research/prompts states to the language model                  *)
(*                                                                         *)
(* The specifications share the variables:                                 *)
(*   Spec          one run of combined_eval_app (the compiled workflow)    *)
(*   SpecFetchMany URLScraper.fetch_many(urls, concurrency) on its own     *)
(*   SpecFetchManyFair  the same with weak fairness: every task that can   *)
(*                 take a step eventually does                             *)
(*   SpecFetchOne  URLScraper.fetch_one(url) as a function of what the     *)
(*                 browser does                                            *)
(*   SpecCombine   combine_node(state) as a function of its input state    *)
(*   SpecDedup     the search-result pipeline of tavily_search             *)
(*   SpecNaver     _naver_search_impl after the query refinement           *)
(*   SpecLoop      one Budgeted Tool Loop                                  *)
(*   SpecSupervisor one run of the Delegation Supervisor                   *)
(***************************************************************************)
EXTENDS Integers, Sequences, FiniteSets, TLC

VARIABLES
    state,      \* the graph state dict (channels of CombinedEvalState)
    gstatus,    \* "off" | "running" | "done" | "error": the run of the graph
    active,     \* the nodes of the current superstep
    nst,        \* per node: "idle" | "running" | "done" | "failed"
    out,        \* per node: the update dict the node returned last
    runs,       \* per node: how many times the node has been started
    urls,       \* fetch_many: its urls argument
    conc,       \* fetch_many: its concurrency argument
    fm,         \* fetch_many: "off" | "running" | "returned" | "raised"
    wpc,        \* fetch_many: per task, "waiting" | "fetching" | "done" | "raised"
    results,    \* fetch_many: the shared results list
    fo_in,      \* fetch_one on its own: <<url, browser behaviour>>
    fo_out,     \* fetch_one on its own: the outcomes of the calls made
    call_in,    \* a function of deep_research on its own: its arguments
    call_out,   \* a function of deep_research on its own: what it computed
    replies     \* per judged pass: the Judge's replies of its last run

vars == <<state, gstatus, active, nst, out, runs,
          urls, conc, fm, wpc, results, fo_in, fo_out, call_in, call_out,
          replies>>

graphVars == <<state, gstatus, active, nst, out, runs, replies>>
fetchVars == <<urls, conc, fm, wpc, results>>
oneVars   == <<fo_in, fo_out, call_in, call_out>>

(***************************************************************************)
(* Bounds of the model.                                                    *)
(***************************************************************************)
MaxEvidence == 3      \* longest evidence list of a graph run
MaxUrls == 4          \* longest urls list of a fetch_many call on its own
MaxConcurrency == 3   \* largest concurrency of a fetch_many call on its own
MaxResults == 2       \* longest result list handed to combine_node on its own
ScoreScale == 2       \* a score s stands for the float s / ScoreScale

Min(a, b) == IF a < b THEN a ELSE b

Range(s) == {s[i] : i \in DOMAIN s}

(***************************************************************************)
(* URLScraper.fetch_one                                                    *)
(***************************************************************************)

\* status: Optional[int] = None
NoStatus == -1

\* Python's None where a string is expected (final_url, title, error)
None == "None"

\* URLScraper(max_chars=50_000) in scrape_urls_node
MaxChars == 50000

\* fetch_many(urls, concurrency=3) in scrape_urls_node
Concurrency == 3

\* The awaited steps of the try block, in program order.
TrySteps == <<"start", "launch", "new_context", "new_page", "goto",
              "wait", "title", "evaluate", "ctx_close">>

\* title and evaluate sit in their own try/except Exception: a failure there
\* is swallowed and the try block goes on.
SwallowedSteps == {"title", "evaluate"}

StepIndex(s) == CHOOSE i \in DOMAIN TrySteps : TrySteps[i] = s

\* What the browser does during one call: the step of the try block that
\* raises ("none": no step raises), whether it raises PlaywrightTimeoutError
\* or another Exception, the response of goto (NoStatus: goto returned None),
\* the length of document.body.innerText, and whether browser.close() and
\* playwright.stop() raise in the finally block.
StatusCodes == {199, 200, 301, 399, 400, 404, 500}
TextLens == {0, 1, MaxChars, MaxChars + 1}

FetchEnvs ==
    [failAt : Range(TrySteps) \cup {"none"},
     kind : {"timeout", "other"},
     resp : StatusCodes \cup {NoStatus},
     textLen : TextLens,
     closeFails : BOOLEAN,
     stopFails : BOOLEAN]

\* step s of the try block ran to completion
Completed(env, s) ==
    \/ env.failAt = "none"
    \/ /\ env.failAt # s
       /\ \/ env.failAt \in SwallowedSteps
          \/ StepIndex(s) < StepIndex(env.failAt)

\* variant: the lower limit left out (status < 400)
OkOf_NoLowerLimit(status) == status # NoStatus /\ status < 400

\* "ok": status is not None and 200 <= status < 400
\* variant: the upper limit included (status <= 400)
OkOf_UpperInclusive(status) ==
    status # NoStatus /\ 200 <= status /\ status <= 400
OkOf(status) == status # NoStatus /\ 200 <= status /\ status < 400

\* except PlaywrightTimeoutError / except Exception
ErrorOf(env) ==
    IF env.failAt = "none" \/ env.failAt \in SwallowedSteps THEN None
    ELSE IF env.kind = "timeout" THEN "Timeout after 20000 ms"
    ELSE "Exception: " \o env.failAt

\* finally: if browser is not None: await browser.close()
\*          if playwright is not None: await playwright.stop()
\* An exception of browser.close() leaves the finally block at once.
CloseRaises(env) == Completed(env, "launch") /\ env.closeFails
StopRaises(env) ==
    Completed(env, "start") /\ ~CloseRaises(env) /\ env.stopFails

CleanupRaises(env) == CloseRaises(env) \/ StopRaises(env)

\* variant: the text is returned without the cut at max_chars
FetchOne_NoCap(url, env, max_chars) ==
    LET status == IF Completed(env, "goto") /\ env.resp # NoStatus
                  THEN env.resp ELSE NoStatus
        final_url == IF Completed(env, "goto") /\ env.resp # NoStatus
                     THEN url ELSE None
        title == IF Completed(env, "wait") /\ env.failAt # "title"
                 THEN "title" ELSE None
        raw == IF Completed(env, "wait") /\ env.failAt # "evaluate"
               THEN env.textLen ELSE 0
    IN  [raises |-> CleanupRaises(env),
         value |-> [url |-> url,
                    ok |-> OkOf(status),
                    status |-> status,
                    final_url |-> final_url,
                    title |-> title,
                    text |-> [src |-> url, len |-> raw],
                    error |-> ErrorOf(env)],
         started |-> Completed(env, "start"),
         launched |-> Completed(env, "launch"),
         closed |-> Completed(env, "launch")
                    /\ ~CloseRaises(env),
         stopped |-> Completed(env, "start")
                     /\ ~CloseRaises(env) /\ ~StopRaises(env)]

\* The outcome of fetch_one(url): raises = TRUE when an exception leaves the
\* call, else value is the returned dict.  started/launched/closed/stopped
\* say what became of the browser runtime and the browser.
FetchOne(url, env, max_chars) ==
    LET status == IF Completed(env, "goto") /\ env.resp # NoStatus
                  THEN env.resp ELSE NoStatus
        final_url == IF Completed(env, "goto") /\ env.resp # NoStatus
                     THEN url ELSE None
        title == IF Completed(env, "wait") /\ env.failAt # "title"
                 THEN "title" ELSE None
        raw == IF Completed(env, "wait") /\ env.failAt # "evaluate"
               THEN env.textLen ELSE 0
        text == IF raw > max_chars THEN max_chars ELSE raw
    IN  [raises |-> CleanupRaises(env),
         value |-> [url |-> url,
                    ok |-> OkOf(status),
                    status |-> status,
                    final_url |-> final_url,
                    title |-> title,
                    text |-> [src |-> url, len |-> text],
                    error |-> ErrorOf(env)],
         started |-> Completed(env, "start"),
         launched |-> Completed(env, "launch"),
         closed |-> Completed(env, "launch")
                    /\ ~CloseRaises(env),
         stopped |-> Completed(env, "start")
                     /\ ~CloseRaises(env) /\ ~StopRaises(env)]

UrlSeq == <<"u1", "u2", "u3", "u4", "u5", "u6">>

(***************************************************************************)
(* _aggregate_impact, _aggregate_attribution, combine_node                 *)
(***************************************************************************)

\* A Python float or None, or the exception of a division by zero.  A float
\* is kept as the fraction num / den, not rounded.
NoneAvg == [kind |-> "None", num |-> 0, den |-> 1]
ZeroDivisionError == [kind |-> "ZeroDivisionError", num |-> 0, den |-> 0]

\* a / b
Divide(a, b) ==
    IF b = 0 THEN ZeroDivisionError ELSE [kind |-> "float", num |-> a, den |-> b]

RECURSIVE SumScores(_)
\* sum(scores) with scores = [r.score for r in rs]
SumScores(rs) ==
    IF rs = <<>> THEN 0 ELSE rs[1].score + SumScores(Tail(rs))

\* label_counts[r.label] += 1 for r in rs; dict(label_counts)
LabelCounts(rs) ==
    [l \in {rs[i].label : i \in DOMAIN rs} |->
        Cardinality({i \in DOMAIN rs : rs[i].label = l})]

\* variant: the mean taken without the test for an empty list
AggregateImpact_NoGuard(impact_results) ==
    [avg_score |-> Divide(SumScores(impact_results), Len(impact_results)),
     label_counts |-> LabelCounts(impact_results)]

\* _aggregate_impact(impact_results)
AggregateImpact(impact_results) ==
    IF impact_results = <<>>
    THEN [avg_score |-> NoneAvg, label_counts |-> LabelCounts(<<>>)]
    ELSE [avg_score |->
              IF Len(impact_results) # 0
              THEN Divide(SumScores(impact_results), Len(impact_results))
              ELSE NoneAvg,
          label_counts |-> LabelCounts(impact_results)]

\* _aggregate_attribution(attribution_results)
AggregateAttribution(attribution_results) ==
    IF attribution_results = <<>>
    THEN [avg_score |-> NoneAvg,
          label_counts |-> LabelCounts(<<>>),
          politician_mentioned_ratio |-> NoneAvg,
          policy_topic_mentioned_ratio |-> NoneAvg]
    ELSE LET rs == attribution_results
             total == Len(rs)
             politician_mentioned ==
                 Cardinality({i \in DOMAIN rs : rs[i].politician_mentioned})
             policy_topic_mentioned ==
                 Cardinality({i \in DOMAIN rs : rs[i].policy_topic_mentioned})
         IN [avg_score |->
                 IF Len(rs) # 0 THEN Divide(SumScores(rs), Len(rs))
                 ELSE NoneAvg,
             label_counts |-> LabelCounts(rs),
             politician_mentioned_ratio |->
                 IF total # 0 THEN Divide(politician_mentioned, total)
                 ELSE NoneAvg,
             policy_topic_mentioned_ratio |->
                 IF total # 0 THEN Divide(policy_topic_mentioned, total)
                 ELSE NoneAvg]

\* variant: avg_score <= 0.5
BelowHalf_Inclusive(avg) ==
    avg.kind = "float" /\ 2 * avg.num <= avg.den * ScoreScale

\* avg_score is not None and avg_score < 0.5, for a mean of scores s / ScoreScale
BelowHalf(avg) ==
    avg.kind = "float" /\ 2 * avg.num < avg.den * ScoreScale

\* The keys of the state dict.  A dict is a record that holds its key set in
\* "keys"; the field of a key that is not in "keys" holds a placeholder.
ContextKeys == {"politician", "policy", "question", "industry_or_sector",
                "companies", "impact_description"}
AllKeys == ContextKeys \cup {"evidence", "scraped_pages", "impact_results",
                             "attribution_results", "combined_summary"}

NoSummary == [impact |-> AggregateImpact(<<>>),
              attribution |-> AggregateAttribution(<<>>),
              flags |-> [has_low_impact_evidence |-> FALSE,
                         has_weak_attribution |-> FALSE]]

EmptyDict == [keys |-> {}, evidence |-> <<>>, scraped_pages |-> <<>>,
              impact_results |-> <<>>, attribution_results |-> <<>>,
              combined_summary |-> NoSummary]

\* d.get(key, []) for a list-valued key
GetList(d, key) == IF key \in d.keys THEN d[key] ELSE <<>>

\* The dict d updated with the dict u: {**d, **u}
Merge(d, u) ==
    [keys |-> d.keys \cup u.keys,
     evidence |-> IF "evidence" \in u.keys THEN u.evidence ELSE d.evidence,
     scraped_pages |-> IF "scraped_pages" \in u.keys
                       THEN u.scraped_pages ELSE d.scraped_pages,
     impact_results |-> IF "impact_results" \in u.keys
                        THEN u.impact_results ELSE d.impact_results,
     attribution_results |-> IF "attribution_results" \in u.keys
                             THEN u.attribution_results
                             ELSE d.attribution_results,
     combined_summary |-> IF "combined_summary" \in u.keys
                          THEN u.combined_summary ELSE d.combined_summary]

\* The summary combine_node builds from the two result lists.
CombinedSummary(impact_results, attribution_results) ==
    LET impact_summary == AggregateImpact(impact_results)
        attribution_summary == AggregateAttribution(attribution_results)
    IN [impact |-> impact_summary,
        attribution |-> attribution_summary,
        flags |-> [has_low_impact_evidence |->
                       BelowHalf(impact_summary.avg_score),
                   has_weak_attribution |->
                       BelowHalf(attribution_summary.avg_score)]]

\* combine_node(state): raises is TRUE when an exception leaves the node,
\* else value is the returned dict {**state, "combined_summary": ...}.
CombineNode(st) ==
    LET summary == CombinedSummary(GetList(st, "impact_results"),
                                   GetList(st, "attribution_results"))
    IN [raises |-> \/ summary.impact.avg_score = ZeroDivisionError
                   \/ summary.attribution.avg_score = ZeroDivisionError,
        value |-> Merge(st, [EmptyDict EXCEPT
                                !.keys = {"combined_summary"},
                                !.combined_summary = summary])]

(***************************************************************************)
(* The two judged passes                                                   *)
(***************************************************************************)

ImpactPass == "evaluate_impact"
AttributionPass == "evaluate_policy_attribution"
Passes == {ImpactPass, AttributionPass}

\* The keys a pass reads with state[...] (a missing one raises KeyError).
RequiredKeys(pass) ==
    IF pass = ImpactPass
    THEN {"industry_or_sector", "companies", "impact_description"}
    ELSE {"politician", "policy", "industry_or_sector", "companies"}

\* The key a pass writes.
ResultKey(pass) ==
    IF pass = ImpactPass THEN "impact_results" ELSE "attribution_results"

\* What chain.ainvoke does for one document: it raises (a request error, or
\* a reply that does not parse into the structured output type), or returns
\* a structured result.  Labels and scores of the returned results:
JudgeRaises == [raises |-> TRUE, label |-> "", score |-> 0, mentioned |-> FALSE]

JudgeLow(pass) ==
    [raises |-> FALSE,
     label |-> IF pass = ImpactPass THEN "NOT_ENOUGH_INFO" ELSE "UNRELATED",
     score |-> 0, mentioned |-> FALSE]

JudgeHigh(pass) ==
    [raises |-> FALSE,
     label |-> IF pass = ImpactPass THEN "SUPPORTED" ELSE "HIGHLY_RELATED",
     score |-> ScoreScale, mentioned |-> TRUE]

\* The replies of the Judge to the n calls of a pass: every call returns,
\* or one call raises.
JudgeReplySeqs(pass, n) ==
    [1..n -> {JudgeLow(pass), JudgeHigh(pass)}]
    \cup {[[i \in 1..n |-> JudgeHigh(pass)] EXCEPT ![k] = JudgeRaises] :
             k \in 1..n}

\* _evaluate_single_url: the PerURLImpactEval / PerURLPolicyAttributionEval
\* built from the evidence url, the page it was zipped with and the reply.
Verdict(pass, url, page, reply) ==
    IF pass = ImpactPass
    THEN [url |-> url, http_status |-> page.status, ok |-> page.ok,
          label |-> reply.label, score |-> reply.score]
    ELSE [url |-> url, http_status |-> page.status, ok |-> page.ok,
          label |-> reply.label, score |-> reply.score,
          politician_mentioned |-> reply.mentioned,
          policy_topic_mentioned |-> reply.mentioned]

\* variant: only the pages fetched with ok = true are judged
ZipIndices_OkOnly(evidence, scraped_pages) ==
    {i \in 1..Min(Len(evidence), Len(scraped_pages)) : scraped_pages[i].ok}

\* for ev, page in zip(evidence, scraped_pages): the positions judged
ZipIndices(evidence, scraped_pages) ==
    1..Min(Len(evidence), Len(scraped_pages))

\* s restricted to the positions in idx, in order
RECURSIVE SelectSeq2(_, _, _)
SelectSeq2(s, idx, i) ==
    IF i > Len(s) THEN <<>>
    ELSE (IF i \in idx THEN <<s[i]>> ELSE <<>>) \o SelectSeq2(s, idx, i + 1)

\* variant: a pass returns {**state, "<pass>_results": results}, as
\* scrape_urls_node and combine_node do
EvaluateNode_SpreadState(pass, st, rep) ==
    LET evidence == GetList(st, "evidence")
        scraped_pages == GetList(st, "scraped_pages")
        idx == ZipIndices(evidence, scraped_pages)
        all == [i \in 1..Min(Len(evidence), Len(scraped_pages)) |->
                   Verdict(pass, evidence[i], scraped_pages[i], rep[i])]
        res == SelectSeq2(all, idx, 1)
    IN [raises |-> \/ ~(RequiredKeys(pass) \subseteq st.keys)
                   \/ \E i \in idx : rep[i].raises,
        value |-> IF pass = ImpactPass
                  THEN Merge(st, [EmptyDict EXCEPT
                                     !.keys = {"impact_results"},
                                     !.impact_results = res])
                  ELSE Merge(st, [EmptyDict EXCEPT
                                     !.keys = {"attribution_results"},
                                     !.attribution_results = res])]

\* variant: a pass judges nothing when the state already holds the results
\* of the other pass
EvaluateNode_SkipsWhenOtherDone(pass, st, rep) ==
    LET evidence == GetList(st, "evidence")
        scraped_pages == GetList(st, "scraped_pages")
        idx == ZipIndices(evidence, scraped_pages)
        all == [i \in 1..Min(Len(evidence), Len(scraped_pages)) |->
                   Verdict(pass, evidence[i], scraped_pages[i], rep[i])]
        other == IF pass = ImpactPass THEN GetList(st, "attribution_results")
                                      ELSE GetList(st, "impact_results")
        res == IF other # <<>> THEN <<>> ELSE SelectSeq2(all, idx, 1)
    IN [raises |-> \/ ~(RequiredKeys(pass) \subseteq st.keys)
                   \/ \E i \in idx : rep[i].raises,
        value |-> IF pass = ImpactPass
                  THEN [EmptyDict EXCEPT !.keys = {"impact_results"},
                                         !.impact_results = res]
                  ELSE [EmptyDict EXCEPT !.keys = {"attribution_results"},
                                         !.attribution_results = res]]

\* evaluate_impact_node / evaluate_policy_attribution_node, given the reply
\* of the Judge for each position: raises is TRUE when an exception leaves
\* the node (asyncio.gather re-raises the first exception of its tasks),
\* else value is the returned dict {"<pass>_results": results}.
EvaluateNode(pass, st, rep) ==
    LET evidence == GetList(st, "evidence")
        scraped_pages == GetList(st, "scraped_pages")
        idx == ZipIndices(evidence, scraped_pages)
        all == [i \in 1..Min(Len(evidence), Len(scraped_pages)) |->
                   Verdict(pass, evidence[i], scraped_pages[i], rep[i])]
        res == SelectSeq2(all, idx, 1)
    IN [raises |-> \/ ~(RequiredKeys(pass) \subseteq st.keys)
                   \/ \E i \in idx : rep[i].raises,
        value |-> IF pass = ImpactPass
                  THEN [EmptyDict EXCEPT !.keys = {"impact_results"},
                                         !.impact_results = res]
                  ELSE [EmptyDict EXCEPT !.keys = {"attribution_results"},
                                         !.attribution_results = res]]

(***************************************************************************)
(* URLScraper.fetch_many: one task per url, all created at once; each      *)
(* enters "async with semaphore", awaits fetch_one and appends its result  *)
(* to the shared list.                                                     *)
(***************************************************************************)

InFlight == Cardinality({i \in DOMAIN wpc : wpc[i] = "fetching"})

\* variant: no semaphore around fetch_one
SlotFree_Unbounded(k, inflight) == TRUE

\* variant: the semaphore is created with one slot too few
SlotFree_OneTooFew(k, inflight) == inflight < k - 1

\* asyncio.Semaphore(k): acquire goes through while fewer than k hold it
SlotFree(k, inflight) == inflight < k

\* What the browser does for the fetches of a fetch_many call: a page with
\* status 200, a page with status 404, and a navigation that times out
\* followed by a browser.close() that raises.
WorkerEnv(failAt, resp, closeFails) ==
    [failAt |-> failAt, kind |-> "timeout", resp |-> resp, textLen |-> 1,
     closeFails |-> closeFails, stopFails |-> FALSE]

WorkerEnvs == {WorkerEnv("none", 200, FALSE),
               WorkerEnv("none", 404, FALSE),
               WorkerEnv("goto", NoStatus, TRUE)}

\* async with semaphore: task i gets a slot.  Waiters are served in the
\* order in which the tasks were created.
Acquire(i) ==
    /\ fm \in {"running", "raised"}
    /\ wpc[i] = "waiting"
    /\ \A j \in 1..(i - 1) : wpc[j] # "waiting"
    /\ SlotFree(conc, InFlight)
    /\ wpc' = [wpc EXCEPT ![i] = "fetching"]
    /\ UNCHANGED <<urls, conc, fm, results, graphVars, oneVars>>

\* result = await self.fetch_one(u); results.append(result); the slot is
\* released on leaving the with block, also when fetch_one raised.
FinishFetch(i) ==
    /\ fm \in {"running", "raised"}
    /\ wpc[i] = "fetching"
    /\ \E env \in WorkerEnvs :
          LET o == FetchOne(urls[i], env, MaxChars)
          IN IF o.raises
             THEN /\ wpc' = [wpc EXCEPT ![i] = "raised"]
                  /\ UNCHANGED results
             ELSE /\ wpc' = [wpc EXCEPT ![i] = "done"]
                  /\ results' = Append(results, o.value)
    /\ UNCHANGED <<urls, conc, fm, graphVars, oneVars>>

\* await asyncio.gather(*tasks): every task is done / a task raised
GatherDone == \A i \in DOMAIN wpc : wpc[i] = "done"
GatherRaised == \E i \in DOMAIN wpc : wpc[i] = "raised"

\* return results
FetchManyReturn ==
    /\ fm = "running"
    /\ GatherDone
    /\ fm' = "returned"
    /\ UNCHANGED <<urls, conc, wpc, results, graphVars, oneVars>>

\* gather re-raises the exception of a task; the other tasks keep running
FetchManyRaise ==
    /\ fm = "running"
    /\ GatherRaised
    /\ fm' = "raised"
    /\ UNCHANGED <<urls, conc, wpc, results, graphVars, oneVars>>

(***************************************************************************)
(* The compiled workflow: supersteps over the edges of the graph.  The     *)
(* nodes of a superstep run concurrently on the same state; their updates  *)
(* are written when all of them have returned, and their successors form   *)
(* the next superstep.  An exception of a node leaves the run.             *)
(***************************************************************************)

Nodes == {"scrape_urls", ImpactPass, AttributionPass, "combine"}
END == "__end__"
EntryPoint == "scrape_urls"

\* variant: one more edge, from scrape_urls straight to combine
Edges_ScrapeToCombine ==
    {<<"scrape_urls", ImpactPass>>,
     <<"scrape_urls", AttributionPass>>,
     <<"scrape_urls", "combine">>,
     <<ImpactPass, "combine">>,
     <<AttributionPass, "combine">>,
     <<"combine", END>>}

\* workflow.add_edge(...)
Edges == {<<"scrape_urls", ImpactPass>>,
          <<"scrape_urls", AttributionPass>>,
          <<ImpactPass, "combine">>,
          <<AttributionPass, "combine">>,
          <<"combine", END>>}

Successors(S) == {m \in Nodes : \E n \in S : <<n, m>> \in Edges}

\* variant: the successors are scheduled as soon as one node has returned
BarrierReached_AnyDone(act, st) == \E n \in act : st[n] = "done"

\* the superstep is over when every node of it has returned
BarrierReached(act, st) == \A n \in act : st[n] = "done"

RECURSIVE ApplyWrites(_, _, _)
\* the state after the updates of the nodes in S are written
ApplyWrites(st, o, S) ==
    IF S = {} THEN st
    ELSE LET n == CHOOSE n \in S : TRUE
         IN ApplyWrites(Merge(st, o[n]), o, S \ {n})

\* two nodes of one superstep wrote the same key (InvalidUpdateError)
WriteConflict(o, S) ==
    \E a, b \in S : a # b /\ o[a].keys \cap o[b].keys # {}

\* variant: the node returns the partial update {"scraped_pages": pages}
ScrapeUrlsResult_OnlyPages(st, pages) ==
    [EmptyDict EXCEPT !.keys = {"scraped_pages"}, !.scraped_pages = pages]

\* scrape_urls_node's return value: {**state, "scraped_pages": pages}
ScrapeUrlsResult(st, pages) ==
    Merge(st, [EmptyDict EXCEPT !.keys = {"scraped_pages"},
                                !.scraped_pages = pages])

\* scrape_urls_node up to its await: with no urls it returns at once
ScrapeStart ==
    /\ gstatus = "running"
    /\ "scrape_urls" \in active
    /\ nst["scrape_urls"] = "idle"
    /\ runs' = [runs EXCEPT !["scrape_urls"] = @ + 1]
    /\ LET evidence == GetList(state, "evidence")
       IN IF evidence = <<>>
          THEN /\ nst' = [nst EXCEPT !["scrape_urls"] = "done"]
               /\ out' = [out EXCEPT !["scrape_urls"] =
                                         ScrapeUrlsResult(state, <<>>)]
               /\ UNCHANGED fetchVars
          ELSE /\ nst' = [nst EXCEPT !["scrape_urls"] = "running"]
               /\ urls' = evidence
               /\ conc' = Concurrency
               /\ fm' = "running"
               /\ wpc' = [i \in DOMAIN evidence |-> "waiting"]
               /\ results' = <<>>
               /\ UNCHANGED out
    /\ UNCHANGED <<state, gstatus, active, replies, oneVars>>

\* fetch_many returned: scrape_urls_node returns
ScrapeReturn ==
    /\ gstatus = "running"
    /\ nst["scrape_urls"] = "running"
    /\ fm = "running"
    /\ GatherDone
    /\ fm' = "returned"
    /\ nst' = [nst EXCEPT !["scrape_urls"] = "done"]
    /\ out' = [out EXCEPT !["scrape_urls"] = ScrapeUrlsResult(state, results)]
    /\ UNCHANGED <<state, gstatus, active, runs, replies,
                   urls, conc, wpc, results, oneVars>>

\* fetch_many raised: the exception leaves scrape_urls_node
ScrapeRaise ==
    /\ gstatus = "running"
    /\ nst["scrape_urls"] = "running"
    /\ fm = "running"
    /\ GatherRaised
    /\ fm' = "raised"
    /\ nst' = [nst EXCEPT !["scrape_urls"] = "failed"]
    /\ UNCHANGED <<state, gstatus, active, out, runs, replies,
                   urls, conc, wpc, results, oneVars>>

\* A judged pass up to its await: the state[...] reads, the loop that
\* builds the tasks; with no task it returns at once.
EvalStart(p) ==
    /\ gstatus = "running"
    /\ p \in active
    /\ nst[p] = "idle"
    /\ runs' = [runs EXCEPT ![p] = @ + 1]
    /\ LET o == EvaluateNode(p, state, <<>>)
           n == Min(Len(GetList(state, "evidence")),
                    Len(GetList(state, "scraped_pages")))
       IN IF ~(RequiredKeys(p) \subseteq state.keys)
          THEN /\ nst' = [nst EXCEPT ![p] = "failed"]
               /\ UNCHANGED <<out, replies>>
          ELSE IF n = 0
          THEN /\ nst' = [nst EXCEPT ![p] = "done"]
               /\ out' = [out EXCEPT ![p] = o.value]
               /\ replies' = [replies EXCEPT ![p] = <<>>]
          ELSE /\ nst' = [nst EXCEPT ![p] = "running"]
               /\ UNCHANGED <<out, replies>>
    /\ UNCHANGED <<state, gstatus, active, fetchVars, oneVars>>

\* per_url_results = await asyncio.gather(*tasks), and the return
EvalFinish(p) ==
    /\ gstatus = "running"
    /\ p \in active
    /\ nst[p] = "running"
    /\ LET n == Min(Len(GetList(state, "evidence")),
                    Len(GetList(state, "scraped_pages")))
       IN \E rep \in JudgeReplySeqs(p, n) :
            LET o == EvaluateNode(p, state, rep)
            IN /\ replies' = [replies EXCEPT ![p] = rep]
               /\ IF o.raises
                  THEN /\ nst' = [nst EXCEPT ![p] = "failed"]
                       /\ UNCHANGED out
                  ELSE /\ nst' = [nst EXCEPT ![p] = "done"]
                       /\ out' = [out EXCEPT ![p] = o.value]
    /\ UNCHANGED <<state, gstatus, active, runs, fetchVars, oneVars>>

\* combine_node: no await in it
CombineRun ==
    /\ gstatus = "running"
    /\ "combine" \in active
    /\ nst["combine"] = "idle"
    /\ runs' = [runs EXCEPT !["combine"] = @ + 1]
    /\ LET o == CombineNode(state)
       IN IF o.raises
          THEN /\ nst' = [nst EXCEPT !["combine"] = "failed"]
               /\ UNCHANGED out
          ELSE /\ nst' = [nst EXCEPT !["combine"] = "done"]
               /\ out' = [out EXCEPT !["combine"] = o.value]
    /\ UNCHANGED <<state, gstatus, active, replies, fetchVars, oneVars>>

\* The end of a superstep: the updates are written and the successors of
\* the nodes that returned are scheduled; with none left the run is over.
EndSuperstep ==
    /\ gstatus = "running"
    /\ active # {}
    /\ BarrierReached(active, nst)
    /\ LET finished == {n \in active : nst[n] = "done"}
           next == Successors(finished)
       IN IF WriteConflict(out, finished)
          THEN /\ gstatus' = "error"
               /\ UNCHANGED <<state, active, nst>>
          ELSE /\ state' = ApplyWrites(state, out, finished)
               /\ active' = next \cup (active \ finished)
               /\ nst' = [n \in Nodes |->
                             IF n \in next THEN "idle" ELSE nst[n]]
               /\ gstatus' = IF next \cup (active \ finished) = {}
                             THEN "done" ELSE "running"
    /\ UNCHANGED <<out, runs, replies, fetchVars, oneVars>>

\* An exception of a node of the superstep leaves ainvoke: the run is over
\* and the other nodes of the superstep are cancelled.
Abort ==
    /\ gstatus = "running"
    /\ \E n \in active : nst[n] = "failed"
    /\ gstatus' = "error"
    /\ UNCHANGED <<state, active, nst, out, runs, replies, fetchVars, oneVars>>

(***************************************************************************)
(* Spec: one run of the compiled workflow.                                 *)
(***************************************************************************)

\* The evidence lists of the runs: distinct urls, and a list that names
\* one url twice.
EvidencePrefix(n) == SubSeq(UrlSeq, 1, n)
EvidenceLists(max) ==
    {EvidencePrefix(n) : n \in 0..max} \cup {<<"u1", "u1">>}

\* The context keys of the input states (every key of CombinedEvalState
\* is optional).
InputKeySets == {ContextKeys,
                 ContextKeys \ {"politician"},
                 ContextKeys \ {"impact_description"},
                 ContextKeys \ {"companies"}}

InputStates ==
    {[EmptyDict EXCEPT !.keys = ks \cup {"evidence"}, !.evidence = ev] :
        ks \in InputKeySets, ev \in EvidenceLists(MaxEvidence)}
    \cup {[EmptyDict EXCEPT !.keys = ContextKeys]}

FetchOff ==
    /\ urls = <<>>
    /\ conc = Concurrency
    /\ fm = "off"
    /\ wpc = <<>>
    /\ results = <<>>

CallOff ==
    /\ call_in = <<>>
    /\ call_out = <<>>

OneOff ==
    /\ fo_in = <<"u1", WorkerEnv("none", 200, FALSE)>>
    /\ fo_out = <<>>
    /\ CallOff

Init ==
    /\ state \in InputStates
    /\ gstatus = "running"
    /\ active = {EntryPoint}
    /\ nst = [n \in Nodes |-> "idle"]
    /\ out = [n \in Nodes |-> EmptyDict]
    /\ runs = [n \in Nodes |-> 0]
    /\ replies = [p \in Passes |-> <<>>]
    /\ FetchOff
    /\ OneOff

Next ==
    \/ ScrapeStart
    \/ \E i \in DOMAIN wpc : Acquire(i)
    \/ \E i \in DOMAIN wpc : FinishFetch(i)
    \/ ScrapeReturn
    \/ ScrapeRaise
    \/ \E p \in Passes : EvalStart(p)
    \/ \E p \in Passes : EvalFinish(p)
    \/ CombineRun
    \/ EndSuperstep
    \/ Abort

Spec == Init /\ [][Next]_vars

(***************************************************************************)
(* SpecFetchMany: URLScraper.fetch_many(urls, concurrency) on its own,     *)
(* from the point where its tasks have been created.                       *)
(***************************************************************************)

GraphOff ==
    /\ state = EmptyDict
    /\ gstatus = "off"
    /\ active = {}
    /\ nst = [n \in Nodes |-> "idle"]
    /\ out = [n \in Nodes |-> EmptyDict]
    /\ runs = [n \in Nodes |-> 0]
    /\ replies = [p \in Passes |-> <<>>]

InitFetchMany ==
    /\ GraphOff
    /\ OneOff
    /\ urls \in EvidenceLists(MaxUrls)
    /\ conc \in 1..MaxConcurrency
    /\ fm = "running"
    /\ wpc = [i \in DOMAIN urls |-> "waiting"]
    /\ results = <<>>

NextFetchMany ==
    \/ \E i \in DOMAIN wpc : Acquire(i)
    \/ \E i \in DOMAIN wpc : FinishFetch(i)
    \/ FetchManyReturn
    \/ FetchManyRaise

SpecFetchMany == InitFetchMany /\ [][NextFetchMany]_vars

(***************************************************************************)
(* SpecFetchOne: URLScraper.fetch_one(url) under every behaviour of the    *)
(* browser in FetchEnvs.                                                   *)
(***************************************************************************)

InitFetchOne ==
    /\ GraphOff
    /\ FetchOff
    /\ fo_in \in {"u1"} \X FetchEnvs
    /\ fo_out = <<>>
    /\ CallOff

FetchOneCall ==
    /\ fo_out = <<>>
    /\ fo_out' = <<FetchOne(fo_in[1], fo_in[2], MaxChars)>>
    /\ UNCHANGED <<fo_in, call_in, call_out, graphVars, fetchVars>>

SpecFetchOne == InitFetchOne /\ [][FetchOneCall]_vars

(***************************************************************************)
(* SpecCombine: combine_node(state) run as the only node of a superstep,   *)
(* on input states whose result lists are present or absent.               *)
(***************************************************************************)

SeqsUpTo(S, n) == UNION {[1..k -> S] : k \in 0..n}

ImpactVerdicts ==
    {[url |-> "u1", http_status |-> 200, ok |-> TRUE,
      label |-> l, score |-> s] :
        l \in {"SUPPORTED", "NOT_ENOUGH_INFO"}, s \in 0..ScoreScale}

\* label, politician_mentioned, policy_topic_mentioned of the attribution
\* verdicts handed to combine_node
AttributionKinds ==
    {<<"HIGHLY_RELATED", TRUE, TRUE>>,
     <<"UNRELATED", TRUE, FALSE>>,
     <<"UNRELATED", FALSE, FALSE>>}

AttributionVerdicts ==
    {[url |-> "u1", http_status |-> 200, ok |-> TRUE,
      label |-> k[1], score |-> s,
      politician_mentioned |-> k[2], policy_topic_mentioned |-> k[3]] :
        k \in AttributionKinds, s \in 0..ScoreScale}

OkPage == FetchOne("u1", WorkerEnv("none", 200, FALSE), MaxChars).value

FewImpactLists ==
    {<<>>,
     <<Verdict(ImpactPass, "u1", OkPage, JudgeLow(ImpactPass))>>,
     <<Verdict(ImpactPass, "u1", OkPage, JudgeHigh(ImpactPass))>>}

FewAttributionLists ==
    {<<>>,
     <<Verdict(AttributionPass, "u1", OkPage, JudgeLow(AttributionPass))>>,
     <<Verdict(AttributionPass, "u1", OkPage, JudgeHigh(AttributionPass))>>}

ResultPairs ==
    (SeqsUpTo(ImpactVerdicts, MaxResults) \X FewAttributionLists)
    \cup (FewImpactLists \X SeqsUpTo(AttributionVerdicts, MaxResults))

CombineInputs ==
    {[EmptyDict EXCEPT
        !.keys = ContextKeys \cup {"impact_results", "attribution_results"},
        !.impact_results = pr[1],
        !.attribution_results = pr[2]] : pr \in ResultPairs}
    \cup {[EmptyDict EXCEPT !.keys = ContextKeys \cup {"attribution_results"},
                            !.attribution_results = ar] :
             ar \in SeqsUpTo(AttributionVerdicts, MaxResults)}
    \cup {[EmptyDict EXCEPT !.keys = ContextKeys \cup {"impact_results"},
                            !.impact_results = ir] :
             ir \in SeqsUpTo(ImpactVerdicts, MaxResults)}
    \cup {[EmptyDict EXCEPT !.keys = ContextKeys]}

InitCombine ==
    /\ state \in CombineInputs
    /\ gstatus = "running"
    /\ active = {"combine"}
    /\ nst = [n \in Nodes |-> "idle"]
    /\ out = [n \in Nodes |-> EmptyDict]
    /\ runs = [n \in Nodes |-> 0]
    /\ replies = [p \in Passes |-> <<>>]
    /\ FetchOff
    /\ OneOff

NextCombine ==
    \/ CombineRun
    \/ EndSuperstep

SpecCombine == InitCombine /\ [][NextCombine]_vars

(***************************************************************************)
(* Properties                                                              *)
(***************************************************************************)

RECURSIVE CountTotal(_, _)
\* the sum of the values of the dict of counts lc over the keys in K
CountTotal(lc, K) ==
    IF K = {} THEN 0
    ELSE LET k == CHOOSE k \in K : TRUE
         IN lc[k] + CountTotal(lc, K \ {k})

LabelTotal(lc) == CountTotal(lc, DOMAIN lc)

RECURSIVE ScoreTotal(_, _)
\* the sum of the scores of rs at the positions 1..n
ScoreTotal(rs, n) == IF n = 0 THEN 0 ELSE ScoreTotal(rs, n - 1) + rs[n].score

\* the fraction avg equals total / n
IsMean(avg, total, n) ==
    avg.kind = "float" /\ avg.den # 0 /\ avg.num * n = total * avg.den

CombineDone == runs["combine"] > 0 /\ nst["combine"] = "done"

Summary == out["combine"].combined_summary

\* C1: combine never starts while a judged pass has not returned, and the
\* combined_summary it builds is the one of the impact_results and the
\* attribution_results the two passes returned, in every interleaving.
C1_JoinAfterBothPasses ==
    runs["combine"] > 0 =>
        /\ \A p \in Passes : runs[p] = 1 /\ nst[p] = "done"
        /\ CombineDone =>
              Summary = CombinedSummary(out[ImpactPass].impact_results,
                                        out[AttributionPass].attribution_results)

C1_Witness ==
    /\ CombineDone
    /\ Len(out[ImpactPass].impact_results) >= 2
    /\ Len(out[AttributionPass].attribution_results) >= 2
    /\ Summary.impact.avg_score # Summary.attribution.avg_score

\* C2: in one run of the graph combine is executed exactly once: never more
\* than once, and once in every run that ends.
C2_CombineRunsOnce ==
    /\ runs["combine"] <= 1
    /\ gstatus = "done" => runs["combine"] = 1

C2_Witness ==
    /\ gstatus = "done"
    /\ runs["combine"] = 1
    /\ \A p \in Passes : runs[p] = 1

\* C3 (as claimed): when a judged pass fails with an error the graph does
\* not abort.
C3_PassFailureDoesNotAbort ==
    \A p \in Passes : nst[p] = "failed" => gstatus # "error"

\* C4 (as claimed): when the Judge call of one document fails, the pass
\* does not fail and returns the verdicts of the other documents.
C4_JudgeFailureIsContained ==
    \A p \in Passes :
        (\E i \in DOMAIN replies[p] : replies[p][i].raises) =>
            /\ nst[p] = "done"
            /\ Len(out[p][ResultKey(p)]) = Len(replies[p]) - 1

\* C5 (as claimed): the pages scrape_urls returns are in the order of the
\* evidence list: scraped_pages[i].url = evidence[i].url wherever the two
\* lists are zipped.
C5_PagesMatchEvidence ==
    nst["scrape_urls"] = "done" =>
        LET evidence == GetList(state, "evidence")
            pages == out["scrape_urls"].scraped_pages
        IN \A i \in ZipIndices(evidence, pages) :
              /\ pages[i].url = evidence[i]
              /\ pages[i].text.src = evidence[i]

\* C6: at most concurrency fetch_one calls are in flight in every state of
\* fetch_many; a task beyond the slots stays waiting.
C6_InFlightAtMostK == InFlight <= conc

C6_Witness ==
    /\ InFlight = conc
    /\ \E i \in DOMAIN wpc : wpc[i] = "waiting"
    /\ \E i \in DOMAIN wpc : wpc[i] = "done"

\* C7 (as claimed): fetch_one never raises to its caller, whichever step
\* fails, the cleanup included.
C7_FetchOneNeverRaises ==
    \A i \in DOMAIN fo_out : ~fo_out[i].raises

\* C8: in every record fetch_one returns, ok is true exactly when a status
\* was obtained and it lies in 200..399; with no status ok is false.
C8_OkIffStatusIn200To399 ==
    \A i \in DOMAIN fo_out :
        ~fo_out[i].raises =>
            LET r == fo_out[i].value
            IN /\ r.ok <=> r.status \in 200..399
               /\ r.status = NoStatus => ~r.ok

C8_Witness ==
    /\ fo_out # <<>>
    /\ ~fo_out[1].raises
    /\ fo_out[1].value.status = 400
    /\ ~fo_out[1].value.ok
    /\ fo_out[1].value.error = None

\* the run has three evidence urls, of which exactly one was fetched with
\* ok = false and status 404 and the other two with ok = true
OneOfThreeIs404 ==
    LET pages == GetList(state, "scraped_pages")
    IN /\ Len(GetList(state, "evidence")) = 3
       /\ Len(pages) = 3
       /\ Cardinality({i \in 1..3 : ~pages[i].ok /\ pages[i].status = 404}) = 1
       /\ Cardinality({i \in 1..3 : pages[i].ok}) = 2

\* C9 (as claimed): with one of three documents fetched with ok = false and
\* status 404, the label_counts of each pass sum to 2 and avg_score is over
\* 2 verdicts.
C9_FailedFetchLeftOut ==
    (CombineDone /\ OneOfThreeIs404) =>
        /\ LabelTotal(Summary.impact.label_counts) = 2
        /\ LabelTotal(Summary.attribution.label_counts) = 2
        /\ Summary.impact.avg_score.den = 2
        /\ Summary.attribution.avg_score.den = 2

\* C9 (amended): whenever combine has run, every evidence item zipped with
\* a page has a verdict in each pass, the pages with ok = false included:
\* label_counts sums to the number of zipped pages and avg_score is the
\* mean of the scores of all the Judge's replies; with one of three pages
\* a 404 that is 3 verdicts, not 2.
C9_EveryFetchedDocumentCounted ==
    CombineDone =>
        LET n == Cardinality(ZipIndices(GetList(state, "evidence"),
                                        GetList(state, "scraped_pages")))
            pages == GetList(state, "scraped_pages")
        IN /\ LabelTotal(Summary.impact.label_counts) = n
           /\ LabelTotal(Summary.attribution.label_counts) = n
           /\ n > 0 =>
                /\ IsMean(Summary.impact.avg_score,
                          ScoreTotal(replies[ImpactPass], n), n)
                /\ IsMean(Summary.attribution.avg_score,
                          ScoreTotal(replies[AttributionPass], n), n)
           /\ \A p \in Passes : \A i \in 1..n :
                /\ out[p][ResultKey(p)][i].ok = pages[i].ok
                /\ out[p][ResultKey(p)][i].http_status = pages[i].status

C9_Witness ==
    /\ CombineDone
    /\ OneOfThreeIs404
    /\ LabelTotal(Summary.impact.label_counts) = 3
    /\ LabelTotal(Summary.attribution.label_counts) = 3

\* C10: for each pass avg_score is None exactly when the pass has no
\* verdicts (an empty or an absent result list), and otherwise the sum of
\* the verdict scores over their number; combine_node never raises a
\* division by zero.
C10_MeanOrNone ==
    /\ nst["combine"] # "failed"
    /\ CombineDone =>
          LET ir == GetList(state, "impact_results")
              ar == GetList(state, "attribution_results")
          IN /\ Summary.impact.avg_score = NoneAvg <=> Len(ir) = 0
             /\ Summary.attribution.avg_score = NoneAvg <=> Len(ar) = 0
             /\ Len(ir) > 0 =>
                   IsMean(Summary.impact.avg_score,
                          ScoreTotal(ir, Len(ir)), Len(ir))
             /\ Len(ar) > 0 =>
                   IsMean(Summary.attribution.avg_score,
                          ScoreTotal(ar, Len(ar)), Len(ar))

C10_Witness ==
    /\ CombineDone
    /\ "impact_results" \notin state.keys
    /\ Summary.impact.avg_score = NoneAvg
    /\ Len(GetList(state, "attribution_results")) = 2
    /\ Summary.attribution.avg_score.kind = "float"
    /\ Summary.attribution.avg_score.num = 1

\* C11 (as claimed): a run of the graph ends with a combined_summary for
\* every input state CombinedEvalState accepts, whichever of its keys are
\* absent, and a pass without verdicts has avg_score None there.  Stated
\* for the runs in which no fetch and no Judge call raises.
C11_SummaryAlwaysMaterializes ==
    (/\ gstatus \in {"done", "error"}
     /\ fm # "raised"
     /\ \A i \in DOMAIN wpc : wpc[i] # "raised"
     /\ \A p \in Passes : \A i \in DOMAIN replies[p] : ~replies[p][i].raises)
    => /\ gstatus = "done"
       /\ "combined_summary" \in state.keys
       /\ state.impact_results = <<>> =>
              state.combined_summary.impact.avg_score = NoneAvg
       /\ state.attribution_results = <<>> =>
              state.combined_summary.attribution.avg_score = NoneAvg

PassReturned(p) == runs[p] > 0 /\ nst[p] = "done"

OtherPass(p) == IF p = ImpactPass THEN AttributionPass ELSE ImpactPass

\* C19: a judged pass returns a dict with its own result key and no other
\* key, the two returned dicts never conflict, and the state combine starts
\* from is the state after scrape_urls with both result lists added, the
\* same in either order of writing.
C19_BranchesWriteDisjointKeys ==
    /\ \A p \in Passes : PassReturned(p) => out[p].keys = {ResultKey(p)}
    /\ (\A p \in Passes : PassReturned(p)) => ~WriteConflict(out, Passes)
    /\ "combine" \in active =>
          /\ state = Merge(Merge(out["scrape_urls"], out[ImpactPass]),
                           out[AttributionPass])
          /\ state = Merge(Merge(out["scrape_urls"], out[AttributionPass]),
                           out[ImpactPass])
          /\ state.impact_results = out[ImpactPass].impact_results
          /\ state.attribution_results =
                 out[AttributionPass].attribution_results
          /\ state.scraped_pages = out["scrape_urls"].scraped_pages
          /\ state.evidence = out["scrape_urls"].evidence

C19_Witness ==
    /\ "combine" \in active
    /\ Len(state.impact_results) >= 2
    /\ Len(state.attribution_results) >= 2
    /\ state.impact_results[1].score # state.attribution_results[1].score

\* Result lists the other pass might have left in the state a pass reads.
ForeignResults(q) ==
    {<<>>, out[q][ResultKey(q)], <<Verdict(q, "u1", OkPage, JudgeHigh(q))>>}

\* the state st with the result list rs under the result key of pass q
WithResults(st, q, rs) ==
    Merge(st, IF q = ImpactPass
              THEN [EmptyDict EXCEPT !.keys = {"impact_results"},
                                     !.impact_results = rs]
              ELSE [EmptyDict EXCEPT !.keys = {"attribution_results"},
                                     !.attribution_results = rs])

\* C20: what a judged pass returns is determined by the evidence and the
\* scraped_pages scrape_urls left and by the Judge's replies to that pass:
\* it is the same whether the other pass is still idle, running, failed or
\* done, and the same for every result list under the other pass's key.
C20_PassesIsolated ==
    \A p \in Passes :
        PassReturned(p) =>
            /\ out[p] = EvaluateNode(p, out["scrape_urls"], replies[p]).value
            /\ \A rs \in ForeignResults(OtherPass(p)) :
                  out[p] = EvaluateNode(p, WithResults(out["scrape_urls"],
                                                       OtherPass(p), rs),
                                        replies[p]).value

C20_Witness ==
    /\ PassReturned(ImpactPass)
    /\ PassReturned(AttributionPass)
    /\ Len(out[ImpactPass].impact_results) = 2
    /\ out[ImpactPass].impact_results[1].score = ScoreScale
    /\ out[AttributionPass].attribution_results[1].score = 0

\* the fetches of url u that fetch_many has started
FetchesOf(u) == {i \in DOMAIN wpc : urls[i] = u /\ wpc[i] # "waiting"}

\* the verdicts of url u in the list pass p returned
VerdictsOf(p, u) ==
    {i \in DOMAIN out[p][ResultKey(p)] : out[p][ResultKey(p)][i].url = u}

\* C15 (as claimed): in one run of the graph every url is fetched at most
\* once and each pass returns at most one verdict for it, also when the
\* evidence list names the url more than once.
C15_OncePerLocatorAndRubric ==
    \A u \in Range(GetList(state, "evidence")) :
        /\ Cardinality(FetchesOf(u)) <= 1
        /\ \A p \in Passes :
              PassReturned(p) => Cardinality(VerdictsOf(p, u)) <= 1

(***************************************************************************)
(* deep_research.utils: the search-result pipeline of tavily_search        *)
(* (deduplicate_search_results, process_search_results,                    *)
(* format_search_output).  A Python dict is a sequence of entries          *)
(* [key, value] with distinct keys, in insertion order.                    *)
(***************************************************************************)

MaxHits == 3

HasKey(d, k) == \E i \in DOMAIN d : d[i].key = k

\* d[k]
Lookup(d, k) == d[CHOOSE i \in DOMAIN d : d[i].key = k].value

\* d[k] = v: a new key is appended, a known key keeps its position
Put(d, k, v) ==
    IF HasKey(d, k)
    THEN [i \in DOMAIN d |->
             IF d[i].key = k THEN [key |-> k, value |-> v] ELSE d[i]]
    ELSE Append(d, [key |-> k, value |-> v])

Keys(d) == [i \in DOMAIN d |-> d[i].key]
Values(d) == [i \in DOMAIN d |-> d[i].value]

\* variant: unique_results[url] = result without the membership test
DedupStep_LastWins(unique_results, result) ==
    Put(unique_results, result.url, result)

\* variant: the content of a repeated url is added to the stored content
DedupStep_MergeContent(unique_results, result) ==
    IF HasKey(unique_results, result.url)
    THEN Put(unique_results, result.url,
             [Lookup(unique_results, result.url) EXCEPT
                 !.content = @ \o result.content])
    ELSE Put(unique_results, result.url, result)

\* the body of the inner loop of deduplicate_search_results
DedupStep(unique_results, result) ==
    IF ~HasKey(unique_results, result.url)
    THEN Put(unique_results, result.url, result)
    ELSE unique_results

RECURSIVE DedupResults(_, _)
\* for result in response['results']
DedupResults(rs, unique_results) ==
    IF rs = <<>> THEN unique_results
    ELSE DedupResults(Tail(rs), DedupStep(unique_results, Head(rs)))

RECURSIVE DedupResponses(_, _)
\* for response in search_results
DedupResponses(search_results, unique_results) ==
    IF search_results = <<>> THEN unique_results
    ELSE DedupResponses(Tail(search_results),
                        DedupResults(Head(search_results), unique_results))

DeduplicateSearchResults(search_results) ==
    DedupResponses(search_results, <<>>)

\* MAX_CHARS, the characters kept when the model fails, and len("...")
SummaryMaxChars == 15000
HeadChars == 2000
EllipsisLen == 3

\* a text of the summarization pipeline is what it is and how many
\* characters it has; a missing, None or empty raw_content has none
NoRawContent == [kind |-> "none", len |-> 0]

\* summarize_webpage_content: the summary the model made of the first
\* 15000 characters (len: the characters it was given) or, when the model
\* fails, the first 2000 characters of the page and "..." (len: the
\* characters of that text)
SummarizeWebpageContent(webpage_content, ok) ==
    IF ok
    THEN [kind |-> "summary", src |-> webpage_content.kind,
          len |-> Min(webpage_content.len, SummaryMaxChars)]
    ELSE [kind |-> "head", src |-> webpage_content.kind,
          len |-> Min(webpage_content.len, HeadChars) + EllipsisLen]

\* process_search_results: one entry per entry of unique_results; the
\* model fails for the entries at the positions in fails
ProcessSearchResults(unique_results, fails) ==
    [i \in DOMAIN unique_results |->
        LET result == unique_results[i].value
        IN [key |-> unique_results[i].key,
            value |-> [title |-> result.title,
                       content |-> IF result.raw_content.len = 0
                                   THEN result.content
                                   ELSE SummarizeWebpageContent(
                                            result.raw_content,
                                            i \notin fails)]]]

NoResultsMessage ==
    "No valid search results found. Please try different search queries or use a different search API."

\* variant: enumerate(summarized_results.items()) without the start 1
FormatSearchOutput_FromZero(summarized_results) ==
    IF summarized_results = <<>>
    THEN [text |-> NoResultsMessage, sources |-> <<>>]
    ELSE [text |-> "Search results:",
          sources |-> [i \in DOMAIN summarized_results |->
                          [source |-> i - 1,
                           title |-> summarized_results[i].value.title,
                           url |-> summarized_results[i].key,
                           summary |-> summarized_results[i].value.content]]]

\* variant: no test for an empty map, the header alone is returned
FormatSearchOutput_NoEmptyCase(summarized_results) ==
    [text |-> "Search results:",
     sources |-> [i \in DOMAIN summarized_results |->
                     [source |-> i,
                      title |-> summarized_results[i].value.title,
                      url |-> summarized_results[i].key,
                      summary |-> summarized_results[i].value.content]]]

\* format_search_output: the header and one SOURCE block per entry
FormatSearchOutput(summarized_results) ==
    IF summarized_results = <<>>
    THEN [text |-> NoResultsMessage, sources |-> <<>>]
    ELSE [text |-> "Search results:",
          sources |-> [i \in DOMAIN summarized_results |->
                          [source |-> i,
                           title |-> summarized_results[i].value.title,
                           url |-> summarized_results[i].key,
                           summary |-> summarized_results[i].value.content]]]

(***************************************************************************)
(* SpecDedup: deduplicate_search_results and the rest of tavily_search on  *)
(* drawn search results.                                                   *)
(***************************************************************************)

SearchUrls == {"u1", "u2", "u3"}

\* the lengths of the pages: shorter than the 2000 characters kept on a
\* failure, between that and the 15000 given to the model, and longer
RawLen == [u \in SearchUrls |->
              IF u = "u1" THEN 1500 ELSE IF u = "u2" THEN 2500 ELSE 20000]

\* one result of a search response: with raw_content or without
SearchHits ==
    {[url |-> u, title |-> "t1", content |-> "c1",
      raw_content |-> NoRawContent] : u \in SearchUrls}
    \cup
    {[url |-> u, title |-> "t2", content |-> "c2",
      raw_content |-> [kind |-> "page", len |-> RawLen[u]]] :
        u \in SearchUrls}

\* the lists of responses: up to max results in all, in one response or
\* split over two
ResponseLists(max) ==
    {<<>>}
    \cup {<<f>> : f \in SeqsUpTo(SearchHits, max)}
    \cup UNION {{<<SubSeq(f, 1, k), SubSeq(f, k + 1, Len(f))>> :
                    k \in 0..Len(f)} : f \in SeqsUpTo(SearchHits, max)}

NoOutput == [text |-> "", sources |-> <<>>]

InitDedup ==
    /\ GraphOff
    /\ FetchOff
    /\ fo_in = <<"u1", WorkerEnv("none", 200, FALSE)>>
    /\ fo_out = <<>>
    /\ call_in \in [search_results : ResponseLists(MaxHits),
                    fails : {{}, {1}, {2}, 1..MaxHits}]
    /\ call_out = [done |-> {}, unique |-> <<>>, doubled |-> <<>>,
                   again |-> <<>>, formatted |-> NoOutput]

\* unique_results = deduplicate_search_results(search_results)
DeduplicateCall ==
    /\ call_out.done = {}
    /\ call_out' = [call_out EXCEPT
                       !.done = {"dedup"},
                       !.unique =
                           DeduplicateSearchResults(call_in.search_results)]
    /\ UNCHANGED <<call_in, fo_in, fo_out, graphVars, fetchVars>>

\* deduplicate_search_results(search_results + search_results)
DeduplicateDoubled ==
    /\ "dedup" \in call_out.done
    /\ "doubled" \notin call_out.done
    /\ call_out' = [call_out EXCEPT
                       !.done = @ \cup {"doubled"},
                       !.doubled = DeduplicateSearchResults(
                           call_in.search_results \o call_in.search_results)]
    /\ UNCHANGED <<call_in, fo_in, fo_out, graphVars, fetchVars>>

\* deduplicate_search_results([{'results': list(unique_results.values())}])
DeduplicateAgain ==
    /\ "dedup" \in call_out.done
    /\ "again" \notin call_out.done
    /\ call_out' = [call_out EXCEPT
                       !.done = @ \cup {"again"},
                       !.again = DeduplicateSearchResults(
                                     <<Values(call_out.unique)>>)]
    /\ UNCHANGED <<call_in, fo_in, fo_out, graphVars, fetchVars>>

\* tavily_search after the deduplication: process_search_results and
\* format_search_output
ProcessAndFormat ==
    /\ "dedup" \in call_out.done
    /\ "format" \notin call_out.done
    /\ call_out' = [call_out EXCEPT
                       !.done = @ \cup {"format"},
                       !.formatted = FormatSearchOutput(
                           ProcessSearchResults(call_out.unique,
                                                call_in.fails))]
    /\ UNCHANGED <<call_in, fo_in, fo_out, graphVars, fetchVars>>

NextDedup ==
    \/ DeduplicateCall
    \/ DeduplicateDoubled
    \/ DeduplicateAgain
    \/ ProcessAndFormat

SpecDedup == InitDedup /\ [][NextDedup]_vars

RECURSIVE Flat(_)
\* the results of the responses in iteration order
Flat(search_results) ==
    IF search_results = <<>> THEN <<>>
    ELSE Head(search_results) \o Flat(Tail(search_results))

\* the first position of url u in flat
FirstIndex(flat, u) ==
    CHOOSE i \in DOMAIN flat :
        flat[i].url = u /\ \A j \in 1..(i - 1) : flat[j].url # u

RECURSIVE FirstSeen(_, _)
\* the urls of flat from position i on, each at its first occurrence
FirstSeen(flat, i) ==
    IF i > Len(flat) THEN <<>>
    ELSE (IF \E j \in 1..(i - 1) : flat[j].url = flat[i].url
          THEN <<>> ELSE <<flat[i].url>>) \o FirstSeen(flat, i + 1)

Hits == Flat(call_in.search_results)

\* C12: the map deduplicate_search_results returns holds, for every url of
\* the input, the first result with that url in iteration order (responses
\* in list order, results in order within a response); it has no other key
\* and no key twice.
C12_FirstSeenWins ==
    "dedup" \in call_out.done =>
        LET m == call_out.unique
        IN /\ \A i \in DOMAIN Hits :
                 /\ HasKey(m, Hits[i].url)
                 /\ Lookup(m, Hits[i].url) =
                        Hits[FirstIndex(Hits, Hits[i].url)]
           /\ \A i \in DOMAIN m : \E j \in DOMAIN Hits : Hits[j].url = m[i].key
           /\ \A i, j \in DOMAIN m : i # j => m[i].key # m[j].key

C12_Witness ==
    /\ "dedup" \in call_out.done
    /\ Len(call_in.search_results) = 2
    /\ Len(call_in.search_results[1]) = 2
    /\ call_in.search_results[1][1].url = "u1"
    /\ call_in.search_results[1][1].content = "c1"
    /\ call_in.search_results[1][2].url = "u1"
    /\ call_in.search_results[1][2].content = "c2"
    /\ Len(call_in.search_results[2]) = 1
    /\ call_in.search_results[2][1].url = "u1"
    /\ call_in.search_results[2][1].content = "c2"
    /\ Len(call_out.unique) = 1
    /\ Lookup(call_out.unique, "u1").content = "c1"

\* C13: deduplicating the input concatenated with itself, and deduplicating
\* the results of a deduplication again, both give the map of the first
\* deduplication: the same keys, values and order.
C13_DedupIdempotent ==
    /\ "doubled" \in call_out.done => call_out.doubled = call_out.unique
    /\ "again" \in call_out.done => call_out.again = call_out.unique

C13_Witness ==
    /\ {"doubled", "again"} \subseteq call_out.done
    /\ Len(call_out.unique) = 2
    /\ Len(Hits) = 3
    /\ call_out.again = call_out.unique

\* C14: the entries of the returned map are in the order of the first
\* occurrence of each url in the input, and format_search_output numbers
\* them in that order: SOURCE i is the i-th url first seen.
C14_EntryOrderIsFirstOccurrence ==
    /\ "dedup" \in call_out.done => Keys(call_out.unique) = FirstSeen(Hits, 1)
    /\ "format" \in call_out.done =>
          LET src == call_out.formatted.sources
          IN /\ Len(src) = Len(FirstSeen(Hits, 1))
             /\ \A i \in DOMAIN src :
                   /\ src[i].source = i
                   /\ src[i].url = FirstSeen(Hits, 1)[i]

C14_Witness ==
    /\ "format" \in call_out.done
    /\ Len(Hits) = 3
    /\ Hits[1].url = "u2"
    /\ Hits[2].url = "u1"
    /\ Hits[3].url = "u2"
    /\ Len(call_out.formatted.sources) = 2
    /\ call_out.formatted.sources[2].source = 2
    /\ call_out.formatted.sources[2].url = "u1"

(***************************************************************************)
(* deep_research.utils: naver_search.  deep_search_naver_internal queries  *)
(* the sections news, webkr and blog in turn and fetches the page of every *)
(* new link with fetch_clean_content.  A text is the record                *)
(* [kind, len, login]: what it is, its length in characters and whether it *)
(* contains the word for "login".                                          *)
(***************************************************************************)

MaxNaverResults == 6
MaxItems == 2

Sections == <<"news", "webkr", "blog">>

MinContentLen == 50
MaxContentChars == 4000
LoginNoticeLen == 25
ScrapeErrorPrefixLen == 11
DescriptionPrefixLen == 5

\* What the page of a link does when fetch_clean_content visits it.
PageBehaviours ==
    {[raises |-> FALSE, len |-> 5000, login |-> FALSE, please |-> FALSE],
     [raises |-> FALSE, len |-> 49, login |-> FALSE, please |-> FALSE],
     [raises |-> FALSE, len |-> 200, login |-> TRUE, please |-> TRUE],
     [raises |-> FALSE, len |-> 200, login |-> TRUE, please |-> FALSE],
     [raises |-> TRUE, len |-> 80, login |-> FALSE, please |-> FALSE],
     [raises |-> TRUE, len |-> 10, login |-> FALSE, please |-> FALSE]}

\* fetch_clean_content: the login notice, the text cut at 4000 characters,
\* or the message of the exception caught (len is then the length of the
\* exception's text)
FetchCleanContent(page) ==
    IF page.raises
    THEN [kind |-> "scrape_error", len |-> ScrapeErrorPrefixLen + page.len,
          login |-> page.login]
    ELSE IF page.login /\ page.please
    THEN [kind |-> "login_notice", len |-> LoginNoticeLen, login |-> TRUE]
    ELSE [kind |-> "page", len |-> Min(page.len, MaxContentChars),
          login |-> page.login]

\* re.sub("<[^<]+?>", "", text)
StripTags(text) == [text EXCEPT !.tags = FALSE]

NaverItem(link) ==
    [link |-> link,
     title |-> [text |-> "title of " \o link, tags |-> TRUE],
     description |-> [text |-> "about " \o link, tags |-> TRUE, len |-> 30]]

\* The items each section holds for the query, best first.
SectionItems ==
    [news |-> <<NaverItem("n1"), NaverItem("n2"), NaverItem("n3")>>,
     webkr |-> <<NaverItem("n1"), NaverItem("w1"), NaverItem("")>>,
     blog |-> <<NaverItem("b1"), NaverItem("w1"), NaverItem("b2")>>]

SectionNames == {"news", "webkr", "blog"}

\* An item whose title is null: re.sub on it raises TypeError.
NullTitle == [text |-> None, tags |-> FALSE]

NoBadItem == [section |-> "none", pos |-> 0]
BadItems == {[section |-> "news", pos |-> 1],
             [section |-> "news", pos |-> 2],
             [section |-> "webkr", pos |-> 1]}

\* The environment of a call: the credentials, which requests fail (raise,
\* or return a body that is not JSON), which item cannot be processed, how
\* many items each section has, what the pages do, and the positions of
\* the documents for which the summarization model fails.
NaverEnvs(maxItems) ==
    [creds : {TRUE}, fail : [SectionNames -> BOOLEAN], bad : {NoBadItem},
     count : [SectionNames -> 0..maxItems], page : PageBehaviours,
     fails : {{}, {1}, {2}, 1..MaxNaverResults}]
    \cup
    [creds : {TRUE}, fail : {[x \in SectionNames |-> FALSE]}, bad : BadItems,
     count : [SectionNames -> 0..maxItems], page : PageBehaviours,
     fails : {{}, {1}, {2}, 1..MaxNaverResults}]
    \cup
    [creds : {FALSE}, fail : {[x \in SectionNames |-> FALSE]},
     bad : {NoBadItem}, count : {[x \in SectionNames |-> 1]},
     page : PageBehaviours, fails : {{}}]

\* data.get("items", []) of the response to a request with display = n
NaverApi(section, display, env) ==
    LET items == SubSeq(SectionItems[section], 1,
                        Min(env.count[section], display))
    IN [i \in DOMAIN items |->
           IF env.bad.section = section /\ env.bad.pos = i
           THEN [items[i] EXCEPT !.title = NullTitle]
           ELSE items[i]]

NoNaverResults == [results_by_url |-> <<>>, fetched |-> <<>>,
                   queried |-> <<>>, errors |-> <<>>, failed |-> FALSE]

RECURSIVE NaverItems(_, _, _, _)
\* for item in items: acc.results_by_url is the dict so far, acc.fetched
\* the links fetch_clean_content was called with; acc.failed says that an
\* exception left the loop
NaverItems(items, acc, max_results, env) ==
    IF items = <<>> THEN acc
    ELSE LET item == Head(items)
             title == StripTags(item.title)
             link == item.link
         IN IF item.title.text = None
            THEN [acc EXCEPT !.failed = TRUE]
            ELSE IF link = "" \/ HasKey(acc.results_by_url, link)
            THEN NaverItems(Tail(items), acc, max_results, env)
            ELSE LET fetched == FetchCleanContent(env.page)
                     full_text ==
                         IF fetched.len < MinContentLen \/ fetched.login
                         THEN [kind |-> "description",
                               len |-> DescriptionPrefixLen
                                       + item.description.len,
                               login |-> FALSE]
                         ELSE fetched
                     acc2 == [acc EXCEPT
                                 !.results_by_url =
                                     Put(@, link, [title |-> title,
                                                   content |-> full_text]),
                                 !.fetched = Append(@, link)]
                 IN IF Len(acc2.results_by_url) >= max_results
                    THEN acc2
                    ELSE NaverItems(Tail(items), acc2, max_results, env)

\* variant: no try/except in the loop body, the first failure ends the
\* search with what was collected
NaverSections_FailureEndsSearch(sections, acc, max_results, env) ==
    IF sections = <<>> THEN acc
    ELSE LET section == Head(sections)
             per_section == IF max_results \div Len(Sections) > 1
                            THEN max_results \div Len(Sections) ELSE 1
             asked == [acc EXCEPT !.queried = Append(@, section)]
             acc2 == NaverItems(NaverApi(section, per_section, env),
                                asked, max_results, env)
         IN IF env.fail[section]
            THEN [asked EXCEPT !.errors = Append(@, section),
                               !.failed = TRUE]
            ELSE IF acc2.failed
            THEN [acc2 EXCEPT !.errors = Append(@, section)]
            ELSE acc2

RECURSIVE NaverSections(_, _, _, _)
\* for section in sections, with the try/except around the request and
\* the items of one section: an exception is printed and the loop goes on
\* with the next section
NaverSections(sections, acc, max_results, env) ==
    IF sections = <<>> THEN acc
    ELSE LET section == Head(sections)
             per_section == IF max_results \div Len(Sections) > 1
                            THEN max_results \div Len(Sections) ELSE 1
             asked == [acc EXCEPT !.queried = Append(@, section)]
         IN IF env.fail[section]
            THEN NaverSections(Tail(sections),
                               [asked EXCEPT !.errors = Append(@, section)],
                               max_results, env)
            ELSE LET acc2 == NaverItems(NaverApi(section, per_section, env),
                                        asked, max_results, env)
                 IN IF acc2.failed
                    THEN NaverSections(Tail(sections),
                                       [acc2 EXCEPT
                                           !.errors = Append(@, section),
                                           !.failed = FALSE],
                                       max_results, env)
                    ELSE IF Len(acc2.results_by_url) >= max_results
                    THEN acc2
                    ELSE NaverSections(Tail(sections), acc2, max_results, env)

\* deep_search_naver_internal(refined_query, needs_recency, max_results)
DeepSearchNaverInternal(max_results, env) ==
    IF ~env.creds THEN NoNaverResults
    ELSE NaverSections(Sections, NoNaverResults, max_results, env)

\* variant: a document whose summarization fails is left out
SummarizeNaverResults_DropsFailed(results_by_url, fails) ==
    SelectSeq2([i \in DOMAIN results_by_url |->
                   [key |-> results_by_url[i].key,
                    value |-> [title |-> results_by_url[i].value.title,
                               content |->
                                   [kind |-> "summary",
                                    src |-> results_by_url[i].value.content.kind,
                                    len |-> Min(results_by_url[i].value.content.len,
                                                SummaryMaxChars)]]]],
               DOMAIN results_by_url \ fails, 1)

\* summarize_naver_results: one entry per entry of results_by_url, its
\* content the summary the model made of the first 15000 characters
\* (len: the characters it was given) or, when the model fails for this
\* document, the first 2000 characters of the raw content and "..."
\* (len: the characters of that text)
SummarizeNaverResults(results_by_url, fails) ==
    [i \in DOMAIN results_by_url |->
        LET r == results_by_url[i].value
        IN [key |-> results_by_url[i].key,
            value |-> [title |-> r.title,
                       content |->
                           IF i \in fails
                           THEN [kind |-> "head", src |-> r.content.kind,
                                 len |-> Min(r.content.len, HeadChars)
                                         + EllipsisLen]
                           ELSE [kind |-> "summary", src |-> r.content.kind,
                                 len |-> Min(r.content.len,
                                             SummaryMaxChars)]]]]

(***************************************************************************)
(* SpecNaver: _naver_search_impl(question, max_results) after the query    *)
(* refinement, under every environment in NaverEnvs.                       *)
(***************************************************************************)

InitNaver ==
    /\ GraphOff
    /\ FetchOff
    /\ fo_in = <<"u1", WorkerEnv("none", 200, FALSE)>>
    /\ fo_out = <<>>
    /\ call_in \in [max_results : 0..MaxNaverResults,
                    env : NaverEnvs(MaxItems)]
    /\ call_out = [done |-> {}, raw |-> NoNaverResults,
                   summarized |-> <<>>, formatted |-> NoOutput]

\* raw_results = deep_search_naver_internal(...)
NaverSearchCall ==
    /\ call_out.done = {}
    /\ call_out' = [call_out EXCEPT
                       !.done = {"search"},
                       !.raw = DeepSearchNaverInternal(call_in.max_results,
                                                       call_in.env)]
    /\ UNCHANGED <<call_in, fo_in, fo_out, graphVars, fetchVars>>

\* summarized = summarize_naver_results(raw_results);
\* output = format_search_output(summarized)
NaverSummarizeAndFormat ==
    /\ call_out.done = {"search"}
    /\ call_out' = [call_out EXCEPT
                       !.done = {"search", "format"},
                       !.summarized =
                           SummarizeNaverResults(call_out.raw.results_by_url,
                                                 call_in.env.fails),
                       !.formatted = FormatSearchOutput(
                           SummarizeNaverResults(call_out.raw.results_by_url,
                                                 call_in.env.fails))]
    /\ UNCHANGED <<call_in, fo_in, fo_out, graphVars, fetchVars>>

NextNaver ==
    \/ NaverSearchCall
    \/ NaverSummarizeAndFormat

SpecNaver == InitNaver /\ [][NextNaver]_vars

\* C16 (as claimed): for every max_results, 0 included, the map
\* deep_search_naver_internal returns has at most max_results urls, no
\* more than max_results pages were fetched for it, and the formatted
\* output has at most max_results sources.
C16_AtMostMaxResults ==
    "search" \in call_out.done =>
        /\ Len(call_out.raw.results_by_url) <= call_in.max_results
        /\ Len(call_out.raw.fetched) <= call_in.max_results
        /\ Len(call_out.formatted.sources) <= call_in.max_results

(***************************************************************************)
(* The Budgeted Tool Loop: run(task, budget).  An iteration picks at most  *)
(* one collaborator call and executes it (success and failure both use one *)
(* unit of the budget), reflects (no budget used) and evaluates the two    *)
(* stopping predicates, goal satisfied and budget exhausted.               *)
(***************************************************************************)

MaxCalls == 4

\* variant: the budget counts as exhausted only once it has been exceeded
BudgetExhausted_Exceeded(calls_used, calls_max) == calls_used > calls_max

\* budget exhausted: calls_used >= calls_max
BudgetExhausted(calls_used, calls_max) == calls_used >= calls_max

InitLoop ==
    /\ GraphOff
    /\ FetchOff
    /\ fo_in = <<"u1", WorkerEnv("none", 200, FALSE)>>
    /\ fo_out = <<>>
    /\ call_in \in [calls_max : 0..MaxCalls]
    /\ call_out = [pc |-> "pick", calls_used |-> 0, transcript |-> <<>>]

\* (b), (c): one collaborator call, which returns or fails; either way it
\* is recorded as a WorkItem and uses one unit of the budget
LoopCall(outcome) ==
    /\ call_out.pc = "pick"
    /\ ~BudgetExhausted(call_out.calls_used, call_in.calls_max)
    /\ call_out' = [pc |-> "reflect",
                    calls_used |-> call_out.calls_used + 1,
                    transcript |-> Append(call_out.transcript, outcome)]
    /\ UNCHANGED <<call_in, fo_in, fo_out, graphVars, fetchVars>>

\* (b) with nothing left to pick: the budget is exhausted before a call
LoopNoCall ==
    /\ call_out.pc = "pick"
    /\ BudgetExhausted(call_out.calls_used, call_in.calls_max)
    /\ call_out' = [call_out EXCEPT !.pc = "done"]
    /\ UNCHANGED <<call_in, fo_in, fo_out, graphVars, fetchVars>>

\* (d): the self-reflection step, outside the budget
LoopReflect ==
    /\ call_out.pc = "reflect"
    /\ call_out' = [call_out EXCEPT
                       !.pc = "check",
                       !.transcript = Append(@, "reflection")]
    /\ UNCHANGED <<call_in, fo_in, fo_out, graphVars, fetchVars>>

\* (e): the loop ends when the goal is satisfied or the budget exhausted
LoopCheck(goal_satisfied) ==
    /\ call_out.pc = "check"
    /\ call_out' = [call_out EXCEPT
                       !.pc = IF goal_satisfied
                                 \/ BudgetExhausted(call_out.calls_used,
                                                    call_in.calls_max)
                              THEN "done" ELSE "pick"]
    /\ UNCHANGED <<call_in, fo_in, fo_out, graphVars, fetchVars>>

NextLoop ==
    \/ \E outcome \in {"finding", "error"} : LoopCall(outcome)
    \/ LoopNoCall
    \/ LoopReflect
    \/ \E goal_satisfied \in BOOLEAN : LoopCheck(goal_satisfied)

SpecLoop == InitLoop /\ [][NextLoop]_vars

\* the collaborator calls recorded in the transcript
CallsIn(transcript) ==
    Cardinality({i \in DOMAIN transcript : transcript[i] # "reflection"})

\* C17: a loop with calls_max = N has issued at most N collaborator calls
\* in every state, failed calls included, and calls_used counts exactly
\* the calls issued; at calls_used = calls_max the next step of the loop
\* is not a call.
C17_AtMostCallsMax ==
    /\ call_out.calls_used <= call_in.calls_max
    /\ CallsIn(call_out.transcript) = call_out.calls_used
    /\ call_out.calls_used = call_in.calls_max =>
          ~ENABLED (\E outcome \in {"finding", "error"} : LoopCall(outcome))

C17_Witness ==
    /\ call_out.pc = "done"
    /\ call_in.calls_max = 3
    /\ call_out.calls_used = 3
    /\ \E i \in DOMAIN call_out.transcript : call_out.transcript[i] = "error"

(***************************************************************************)
(* The Delegation Supervisor: run(root_task, max_parallel,                 *)
(* max_iterations).  A round decomposes the task into 1..max_parallel      *)
(* sub-tasks and dispatches them concurrently, each to its own Budgeted    *)
(* Tool Loop; when all have finished the supervisor assesses the coverage  *)
(* and issues another round or terminates.                                 *)
(***************************************************************************)

MaxParallel == 3
MaxIterations == 3

\* variant: a round is issued while rounds <= max_iterations
IterationsLeft_Inclusive(rounds, max_iterations) == rounds <= max_iterations

\* max_iterations not yet reached
IterationsLeft(rounds, max_iterations) == rounds < max_iterations

InitSupervisor ==
    /\ GraphOff
    /\ FetchOff
    /\ fo_in = <<"u1", WorkerEnv("none", 200, FALSE)>>
    /\ fo_out = <<>>
    /\ call_in \in [max_parallel : 1..MaxParallel,
                    max_iterations : 0..MaxIterations]
    /\ call_out = [pc |-> "plan", rounds |-> 0, running |-> 0,
                   per_round |-> <<>>, merged |-> 0]

\* one dispatch round of n sub-tasks
SupervisorDispatch(n) ==
    /\ call_out.pc = "plan"
    /\ IterationsLeft(call_out.rounds, call_in.max_iterations)
    /\ n \in 1..call_in.max_parallel
    /\ call_out' = [call_out EXCEPT
                       !.pc = "wait",
                       !.rounds = @ + 1,
                       !.running = n,
                       !.per_round = Append(@, n)]
    /\ UNCHANGED <<call_in, fo_in, fo_out, graphVars, fetchVars>>

\* the loop of a sub-task ends (its budget bounds it) and its private
\* results are merged into the workspace
SubTaskFinish ==
    /\ call_out.pc = "wait"
    /\ call_out.running > 0
    /\ call_out' = [call_out EXCEPT !.running = @ - 1, !.merged = @ + 1]
    /\ UNCHANGED <<call_in, fo_in, fo_out, graphVars, fetchVars>>

\* after a round: covered, or no iteration left, ends the run
SupervisorAssess(covered) ==
    /\ call_out.pc = "wait"
    /\ call_out.running = 0
    /\ call_out' = [call_out EXCEPT
                       !.pc = IF covered
                                 \/ ~IterationsLeft(call_out.rounds,
                                                    call_in.max_iterations)
                              THEN "done" ELSE "plan"]
    /\ UNCHANGED <<call_in, fo_in, fo_out, graphVars, fetchVars>>

\* no round can be issued at all
SupervisorStop ==
    /\ call_out.pc = "plan"
    /\ ~IterationsLeft(call_out.rounds, call_in.max_iterations)
    /\ call_out' = [call_out EXCEPT !.pc = "done"]
    /\ UNCHANGED <<call_in, fo_in, fo_out, graphVars, fetchVars>>

NextSupervisor ==
    \/ \E n \in 1..MaxParallel : SupervisorDispatch(n)
    \/ SubTaskFinish
    \/ \E covered \in BOOLEAN : SupervisorAssess(covered)
    \/ SupervisorStop

\* The runtime keeps scheduling the supervisor and its sub-tasks: a step
\* that can be taken is taken.
SpecSupervisor ==
    InitSupervisor /\ [][NextSupervisor]_vars /\ WF_vars(NextSupervisor)

RECURSIVE SumSeq(_)
SumSeq(ns) == IF ns = <<>> THEN 0 ELSE Head(ns) + SumSeq(Tail(ns))

SupervisorBounded ==
    /\ call_out.rounds <= call_in.max_iterations
    /\ Len(call_out.per_round) = call_out.rounds
    /\ \A i \in DOMAIN call_out.per_round :
          call_out.per_round[i] <= call_in.max_parallel
    /\ call_out.running <= call_in.max_parallel
    /\ SumSeq(call_out.per_round)
           <= call_in.max_iterations * call_in.max_parallel

\* C18: every run of the supervisor ends; it issues at most max_iterations
\* rounds of at most max_parallel sub-tasks each, so at most
\* max_iterations * max_parallel sub-tasks in all, also when the coverage
\* is never reached.
C18_SupervisorTerminates ==
    /\ []SupervisorBounded
    /\ <>(call_out.pc = "done")

C18_Witness ==
    /\ call_out.pc = "done"
    /\ call_in.max_iterations = 3
    /\ call_in.max_parallel = 3
    /\ call_out.per_round = <<3, 3, 3>>
    /\ call_out.merged = 9

\* the fetch_one calls that returned a result record
Returned == {i \in DOMAIN fo_out : ~fo_out[i].raises}

\* C21: the text of every result record fetch_one returns has at most
\* max_chars characters, whether the call met no error, a swallowed one or
\* one reported in error.
C21_TextAtMostMaxChars ==
    \A i \in Returned : fo_out[i].value.text.len <= MaxChars

C21_Witness ==
    /\ Returned # {}
    /\ fo_in[2].textLen = MaxChars + 1
    /\ fo_in[2].failAt = "ctx_close"
    /\ fo_out[1].value.error # None
    /\ fo_out[1].value.text.len = MaxChars

\* C26 (as claimed): in every result record fetch_one returns, an error
\* that is not None implies ok = FALSE.
C26_ErrorImpliesNotOk ==
    \A i \in Returned :
        fo_out[i].value.error # None => ~fo_out[i].value.ok

\* C26 (amended): a record with an error has ok = TRUE exactly when the
\* failing step came after the navigation and the response status is in
\* 200..399; an error at or before the navigation implies ok = FALSE.
C26_ErrorBeforeResponseImpliesNotOk ==
    \A i \in Returned :
        fo_out[i].value.error # None =>
            (fo_out[i].value.ok <=>
                /\ StepIndex(fo_in[2].failAt) > StepIndex("goto")
                /\ fo_in[2].resp # NoStatus
                /\ 200 <= fo_in[2].resp
                /\ fo_in[2].resp < 400)

C26_Witness ==
    /\ Returned # {}
    /\ fo_in[2].failAt = "wait"
    /\ fo_in[2].resp = 200
    /\ fo_out[1].value.error # None
    /\ fo_out[1].value.ok

\* C27 (as claimed): whenever fetch_one returns or raises, the browser it
\* launched has been closed and the browser runtime it started has been
\* stopped.
C27_EverythingReleased ==
    \A i \in DOMAIN fo_out :
        /\ fo_out[i].launched => fo_out[i].closed
        /\ fo_out[i].started => fo_out[i].stopped

\* the mean of the scores of rs is below 0.5 (a score s stands for
\* s / ScoreScale)
MeanBelowHalf(rs) ==
    Len(rs) > 0 /\ 2 * ScoreTotal(rs, Len(rs)) < Len(rs) * ScoreScale

\* C22: has_low_impact_evidence is TRUE exactly when the impact pass has
\* verdicts and their mean score is below 0.5, and has_weak_attribution
\* likewise for the attribution pass: no verdicts, or a mean of exactly
\* 0.5, leave the flag FALSE.
C22_FlagsFollowMeans ==
    CombineDone =>
        LET ir == GetList(state, "impact_results")
            ar == GetList(state, "attribution_results")
        IN /\ Summary.flags.has_low_impact_evidence <=> MeanBelowHalf(ir)
           /\ Summary.flags.has_weak_attribution <=> MeanBelowHalf(ar)
           /\ Summary.impact.avg_score = NoneAvg =>
                  ~Summary.flags.has_low_impact_evidence
           /\ Summary.attribution.avg_score = NoneAvg =>
                  ~Summary.flags.has_weak_attribution

C22_Witness ==
    /\ CombineDone
    /\ Len(GetList(state, "impact_results")) = 2
    /\ 2 * ScoreTotal(state.impact_results, 2) = 2 * ScoreScale
    /\ ~Summary.flags.has_low_impact_evidence
    /\ GetList(state, "attribution_results") = <<>>
    /\ ~Summary.flags.has_weak_attribution

\* o is the dict st with the key added or replaced and nothing else changed
SameExcept(o, st, key) ==
    /\ o.keys = st.keys \cup {key}
    /\ \A k \in {"evidence", "scraped_pages", "impact_results",
                 "attribution_results", "combined_summary"} \ {key} :
          o[k] = st[k]

\* C30: scrape_urls_node returns its input state with only scraped_pages
\* added (the empty list, with no fetch made, when there is no evidence;
\* else the list fetch_many returned), and combine_node returns its input
\* state with only combined_summary added or replaced.
C30_NodesWriteOwnKeyOnly ==
    /\ ("scrape_urls" \in active /\ nst["scrape_urls"] = "done") =>
          /\ SameExcept(out["scrape_urls"], state, "scraped_pages")
          /\ IF GetList(state, "evidence") = <<>>
             THEN /\ out["scrape_urls"].scraped_pages = <<>>
                  /\ fm = "off"
                  /\ wpc = <<>>
             ELSE out["scrape_urls"].scraped_pages = results
    /\ ("combine" \in active /\ CombineDone) =>
          /\ SameExcept(out["combine"], state, "combined_summary")
          /\ CombineNode(out["combine"]).value = out["combine"]

C30_Witness ==
    /\ "combine" \in active
    /\ CombineDone
    /\ Len(state.scraped_pages) = 2
    /\ Len(state.impact_results) = 2
    /\ out["combine"].scraped_pages = results
    /\ out["combine"].combined_summary.flags.has_weak_attribution

\* The event loop runs every task that is ready: a step of fetch_many that
\* can be taken is taken.
SpecFetchManyFair ==
    InitFetchMany /\ [][NextFetchMany]_vars /\ WF_vars(NextFetchMany)

\* results holds one record per element of urls, url by url
OneResultPerUrl ==
    /\ Len(results) = Len(urls)
    /\ \A u \in Range(urls) \cup {results[j].url : j \in DOMAIN results} :
          Cardinality({i \in DOMAIN urls : urls[i] = u})
              = Cardinality({j \in DOMAIN results : results[j].url = u})

\* C25: fetch_many(urls, concurrency = k) with k >= 1 ends; every task gets
\* its slot and leaves it again, also when a fetch_one raised; when every
\* fetch_one returns, fetch_many returns, and the list it returns has
\* exactly one record per element of urls.
C25_FetchManyTerminates ==
    /\ <>(fm \in {"returned", "raised"})
    /\ <>(\A i \in DOMAIN wpc : wpc[i] \in {"done", "raised"})
    /\ [](fm = "raised" => \E i \in DOMAIN wpc : wpc[i] = "raised")
    /\ [](fm = "returned" => OneResultPerUrl)

C25_Witness ==
    /\ fm = "returned"
    /\ urls = <<"u1", "u1">>
    /\ conc = 1
    /\ Len(results) = 2
    /\ results[1].status # results[2].status

(***************************************************************************)
(* Containment of failures in deep_search_naver_internal.                  *)
(***************************************************************************)

IsPrefix(s, t) == Len(s) <= Len(t) /\ SubSeq(t, 1, Len(s)) = s

SectionIndex(section) == CHOOSE k \in DOMAIN Sections : Sections[k] = section

\* the sections of this call in which something failed: the request or
\* its body, or the processing of an item that was reached
FailedSections ==
    {s \in SectionNames :
        \/ call_in.env.fail[s]
        \/ /\ call_in.env.bad.section = s
           /\ call_in.env.bad.pos
                  <= Min(call_in.env.count[s],
                         IF call_in.max_results \div Len(Sections) > 1
                         THEN call_in.max_results \div Len(Sections) ELSE 1)}

\* the same environment with nothing from the k-th section's failure on:
\* the sections before it as they are, the k-th with the items before the
\* one that fails, the later ones empty
EnvBefore(env, k) ==
    [env EXCEPT
        !.bad = NoBadItem,
        !.fail = [s \in SectionNames |->
                     SectionIndex(s) < k /\ env.fail[s]],
        !.count = [s \in SectionNames |->
                      IF SectionIndex(s) < k THEN env.count[s]
                      ELSE IF SectionIndex(s) = k /\ env.bad.section = s
                      THEN env.bad.pos - 1
                      ELSE 0]]

\* C23: in deep_search_naver_internal a failure in one section (the request
\* fails, the body is not JSON, or an item cannot be processed) stays in
\* that section: the function returns, the entries collected before the
\* failure are still in the result, in their places, and the section after
\* the failed one is queried, in the order news, webkr, blog.
C23_SectionFailureContained ==
    ("search" \in call_out.done /\ call_in.env.creds) =>
        LET raw == call_out.raw
        IN /\ ~raw.failed
           /\ IsPrefix(raw.queried, Sections)
           /\ \A k \in DOMAIN raw.queried :
                  raw.queried[k] \in FailedSections =>
                      /\ \E j \in DOMAIN raw.errors :
                             raw.errors[j] = raw.queried[k]
                      /\ k < Len(Sections) => Len(raw.queried) > k
                      /\ IsPrefix(
                             DeepSearchNaverInternal(
                                 call_in.max_results,
                                 EnvBefore(call_in.env, k)).results_by_url,
                             raw.results_by_url)

\* news answers, the request for webkr fails, blog answers: the news entry
\* is kept, blog is queried and its entry is added
C23_Witness ==
    /\ "search" \in call_out.done
    /\ call_in.env.creds
    /\ ~call_in.env.fail["news"]
    /\ call_in.env.fail["webkr"]
    /\ call_out.raw.queried = Sections
    /\ call_out.raw.errors = <<"webkr">>
    /\ Keys(call_out.raw.results_by_url) = <<"n1", "b1">>

\* the second news item cannot be processed: the first one is kept and
\* webkr and blog are queried
C23_WitnessBadItem ==
    /\ "search" \in call_out.done
    /\ call_in.env.bad = [section |-> "news", pos |-> 2]
    /\ call_out.raw.errors = <<"news">>
    /\ call_out.raw.queried = Sections
    /\ Len(call_out.raw.results_by_url) >= 2
    /\ call_out.raw.results_by_url[1].key = "n1"

\* C28 (as claimed): the content deep_search_naver_internal stores for a
\* url is never a failure message of the scraper: when fetch_clean_content
\* reports a scraping error or a login-restricted page, whatever the length
\* of the message, the entry holds the description fallback instead.
C28_NoScraperMessageStored ==
    "search" \in call_out.done =>
        \A i \in DOMAIN call_out.raw.results_by_url :
            call_out.raw.results_by_url[i].value.content.kind
                \notin {"scrape_error", "login_notice"}

(***************************************************************************)
(* Searches without results, and documents the model cannot summarize.     *)
(***************************************************************************)

\* the responses of a Tavily search that found nothing: no response, or
\* responses whose results list is empty
EmptyResponses == {<<>>, <<<<>>>>, <<<<>>, <<>>>>}

\* tavily_search on responses without results
TavilyZeroResults ==
    \A sr \in EmptyResponses :
        FormatSearchOutput(
            ProcessSearchResults(DeduplicateSearchResults(sr), {}))
        = [text |-> NoResultsMessage, sources |-> <<>>]

\* C24: a search without results does not fail: when Tavily returns empty
\* results lists, or Naver has no credentials or no item in any section,
\* the pipeline returns the fixed message 'No valid search results
\* found...' and no SOURCE entry.
C24_NoResultsMessage ==
    /\ TavilyZeroResults
    /\ ("format" \in call_out.done /\ call_out.raw.results_by_url = <<>>) =>
           /\ call_out.summarized = <<>>
           /\ call_out.formatted = [text |-> NoResultsMessage,
                                    sources |-> <<>>]
    /\ ("format" \in call_out.done /\ call_out.raw.results_by_url # <<>>) =>
           /\ call_out.formatted.text # NoResultsMessage
           /\ call_out.formatted.sources # <<>>

\* credentials set, every section answers without items
C24_Witness ==
    /\ "format" \in call_out.done
    /\ call_in.env.creds
    /\ call_in.max_results = 5
    /\ \A s \in SectionNames : call_in.env.count[s] = 0 /\ ~call_in.env.fail[s]
    /\ call_out.raw.queried = Sections
    /\ call_out.formatted.text = NoResultsMessage
    /\ call_out.formatted.sources = <<>>

\* no credentials: no section is queried
C24_WitnessNoCredentials ==
    /\ "format" \in call_out.done
    /\ ~call_in.env.creds
    /\ call_out.raw.queried = <<>>
    /\ call_out.formatted.text = NoResultsMessage

\* what summarization makes of one raw text when the model answers and
\* when it fails
SummaryOf(raw) ==
    [kind |-> "summary", src |-> raw.kind, len |-> Min(raw.len, 15000)]
HeadOf(raw) ==
    [kind |-> "head", src |-> raw.kind, len |-> Min(raw.len, 2000) + 3]

\* process_search_results on every deduplicated response of up to MaxHits
\* results, the model failing for none, one or all of them
TavilyKeepsEveryDocument ==
    \A f \in SeqsUpTo(SearchHits, MaxHits) :
        \A fails \in {{}, {1}, {2}, 1..MaxHits} :
            LET unique == DeduplicateSearchResults(<<f>>)
                done == ProcessSearchResults(unique, fails)
            IN /\ Keys(done) = Keys(unique)
               /\ \A i \in DOMAIN unique :
                      /\ done[i].value.title = unique[i].value.title
                      /\ done[i].value.content =
                             IF unique[i].value.raw_content.len = 0
                             THEN unique[i].value.content
                             ELSE IF i \in fails
                             THEN HeadOf(unique[i].value.raw_content)
                             ELSE SummaryOf(unique[i].value.raw_content)

\* C29: process_search_results and summarize_naver_results return the urls
\* of their input in the same order; a document for which the
\* summarization model fails is kept, with its title and the first 2000
\* characters of its raw content followed by '...'; the failure is not
\* raised and the other documents are summarized.
C29_FailedSummaryKeepsDocument ==
    /\ TavilyKeepsEveryDocument
    /\ "format" \in call_out.done =>
           LET raw == call_out.raw.results_by_url
               done == call_out.summarized
           IN /\ Keys(done) = Keys(raw)
              /\ \A i \in DOMAIN raw :
                     /\ done[i].value.title = raw[i].value.title
                     /\ done[i].value.content =
                            IF i \in call_in.env.fails
                            THEN HeadOf(raw[i].value.content)
                            ELSE SummaryOf(raw[i].value.content)

\* the model fails for the first of two documents, a page of 4000
\* characters: it is kept with 2003 characters, the second is summarized
C29_Witness ==
    /\ "format" \in call_out.done
    /\ call_in.env.fails = {1}
    /\ Len(call_out.raw.results_by_url) = 2
    /\ call_out.raw.results_by_url[1].value.content.len = 4000
    /\ Keys(call_out.summarized) = Keys(call_out.raw.results_by_url)
    /\ call_out.summarized[1].value.content.kind = "head"
    /\ call_out.summarized[1].value.content.len = 2003
    /\ call_out.summarized[2].value.content.kind = "summary"

====
